---------------------------- MODULE Spec2Model ----------------------------
(***************************************************************************)
(* Visual-inertial odometry: the IMU pre-integrator (IMUProcessor), the    *)
(* extended Kalman filter (EKFFusionEngine) and the frame loop (VIOSystem).*)
(*                                                                         *)
(* Floating-point numbers are modelled as decimal fixed-point integers     *)
(* with four fractional digits: the integer n stands for n / One.  Every   *)
(* product and quotient is rounded to the nearest unit, which plays the    *)
(* part of floating-point rounding.  Arrays are 1-indexed sequences: the   *)
(* numpy slice state[a:b] is the elements a+1 .. b.                        *)
(***************************************************************************)
EXTENDS Integers, Sequences, FiniteSets, TLC

VARIABLES ekf, imu, vio, op, caller

vars == <<ekf, imu, vio, op, caller>>

-----------------------------------------------------------------------------
(* Fixed-point arithmetic                                                  *)

\* 1.0; the smallest constant of the source, 0.0001, is one unit.
One == 100 * 100

\* IEEE NaN, the result of 0/0: a value no computation of the model yields.
NaN == -(2 ^ 30)

\* Python's None, and a value that is present.
None == <<>>
Some(x) == <<x>>

Abs(x) == IF x < 0 THEN -x ELSE x

Min(a, b) == IF a <= b THEN a ELSE b

Max(a, b) == IF a >= b THEN a ELSE b

\* a / b rounded to the nearest integer, halves away from zero (b # 0).
RoundDiv(a, b) ==
    IF (a < 0) = (b < 0)
    THEN (2 * Abs(a) + Abs(b)) \div (2 * Abs(b))
    ELSE -((2 * Abs(a) + Abs(b)) \div (2 * Abs(b)))

\* The product of two fixed-point numbers.  The operands are split into
\* their integer and fractional parts so that no intermediate product
\* leaves the 32-bit integer range of TLC when the result fits.
MulAbs(a, b) ==
    (a \div One) * (b \div One) * One
    + (a \div One) * (b % One)
    + (a % One) * (b \div One)
    + RoundDiv((a % One) * (b % One), One)

Mul(a, b) ==
    IF a = 0 \/ b = 0 THEN 0
    ELSE IF (a < 0) = (b < 0) THEN MulAbs(Abs(a), Abs(b))
    ELSE -MulAbs(Abs(a), Abs(b))

\* a * 10^k / b for naturals a and b > 0 by long division, one decimal digit
\* at a time, rounded to the nearest integer.
RECURSIVE LongDiv(_, _, _, _)
LongDiv(q, r, b, k) ==
    IF k = 0 THEN (IF 2 * r >= b THEN q + 1 ELSE q)
    ELSE LongDiv(q * 10 + (r * 10) \div b, (r * 10) % b, b, k - 1)

DivAbs(a, b) == LongDiv(a \div b, a % b, b, 4)

\* The quotient of two fixed-point numbers (b # 0).
Div(a, b) ==
    IF (a < 0) = (b < 0) THEN DivAbs(Abs(a), Abs(b))
    ELSE -DivAbs(Abs(a), Abs(b))

\* Floor of the square root of a natural number.
RECURSIVE ISqrtIter(_, _, _)
ISqrtIter(n, lo, hi) ==
    IF lo >= hi THEN lo
    ELSE IF ((lo + hi + 1) \div 2) * ((lo + hi + 1) \div 2) <= n
         THEN ISqrtIter(n, (lo + hi + 1) \div 2, hi)
         ELSE ISqrtIter(n, lo, ((lo + hi + 1) \div 2) - 1)

ISqrt(n) == ISqrtIter(n, 0, Min(n, 46340))

\* Square root of a natural number, rounded to the nearest integer.
RoundUp(n, r) == IF n - r * r > r THEN r + 1 ELSE r

RoundSqrt(n) == RoundUp(n, ISqrt(n))

\* np.sqrt of a non-negative fixed-point number.
Sqrt(x) == IF x <= 200000 THEN RoundSqrt(x * One) ELSE RoundSqrt(x) * 100

-----------------------------------------------------------------------------
(* Arrays                                                                  *)

\* An array held by value (np.array): the elements are computed once.
Arr(s) == SubSeq(s, 1, Len(s))

\* np.zeros(n)
Zeros(n) == Arr([i \in 1..n |-> 0])

\* The numpy slice s[a:b]
Slice(s, a, b) == SubSeq(s, a + 1, Min(b, Len(s)))

\* s after the slice assignment s[a:b] = v
SetSlice(s, a, b, v) ==
    Arr([i \in 1..Len(s) |-> IF a < i /\ i <= b THEN v[i - a] ELSE s[i]])

VecAdd(u, v) == Arr([i \in 1..Len(u) |-> u[i] + v[i]])

VecSub(u, v) == Arr([i \in 1..Len(u) |-> u[i] - v[i]])

VecNeg(u) == Arr([i \in 1..Len(u) |-> -u[i]])

\* v * c for a scalar c
VecScale(v, c) == Arr([i \in 1..Len(v) |-> Mul(v[i], c)])

RECURSIVE DotTo(_, _, _)
DotTo(u, v, k) == IF k = 0 THEN 0 ELSE Mul(u[k], v[k]) + DotTo(u, v, k - 1)

\* np.dot of two vectors
Dot(u, v) == DotTo(u, v, Len(u))

RECURSIVE SumSqTo(_, _)
SumSqTo(v, k) == IF k = 0 THEN 0 ELSE v[k] * v[k] + SumSqTo(v, k - 1)

\* np.linalg.norm
Norm(v) == RoundSqrt(SumSqTo(v, Len(v)))

HasNaN(v) == \E i \in 1..Len(v) : v[i] = NaN

\* v / np.linalg.norm(v): 0/0 is NaN (numpy warns and carries on)
DividedBy(v, n) ==
    IF n = 0 THEN Arr([i \in 1..Len(v) |-> NaN])
    ELSE Arr([i \in 1..Len(v) |-> Div(v[i], n)])

Normalized(v) == DividedBy(v, Norm(v))

-----------------------------------------------------------------------------
(* Matrices: sequences of rows                                             *)

Rows(A) == Len(A)

Cols(A) == IF Len(A) = 0 THEN 0 ELSE Len(A[1])

Shape(A) == <<Rows(A), Cols(A)>>

\* np.eye(n)
Eye(n) == Arr([i \in 1..n |-> Arr([j \in 1..n |-> IF i = j THEN One ELSE 0])])

\* np.zeros((n, m))
ZerosMat(n, m) == Arr([i \in 1..n |-> Zeros(m)])

RECURSIVE RowColTo(_, _, _, _)
RowColTo(r, B, j, k) ==
    IF k = 0 THEN 0 ELSE Mul(r[k], B[k][j]) + RowColTo(r, B, j, k - 1)

\* A @ B
MatMul(A, B) ==
    Arr([i \in 1..Rows(A) |->
        Arr([j \in 1..Cols(B) |-> RowColTo(A[i], B, j, Rows(B))])])

\* A @ v for a vector v
MatVec(A, v) == Arr([i \in 1..Rows(A) |-> DotTo(A[i], v, Len(v))])

\* A.T
Transpose(A) ==
    Arr([j \in 1..Cols(A) |-> Arr([i \in 1..Rows(A) |-> A[i][j]])])

MatAdd(A, B) ==
    Arr([i \in 1..Rows(A) |-> Arr([j \in 1..Cols(A) |-> A[i][j] + B[i][j]])])

MatSub(A, B) ==
    Arr([i \in 1..Rows(A) |-> Arr([j \in 1..Cols(A) |-> A[i][j] - B[i][j]])])

\* A * c for a scalar c
MatScale(A, c) ==
    Arr([i \in 1..Rows(A) |-> Arr([j \in 1..Cols(A) |-> Mul(A[i][j], c)])])

\* np.trace
RECURSIVE TraceTo(_, _)
TraceTo(A, k) == IF k = 0 THEN 0 ELSE A[k][k] + TraceTo(A, k - 1)

Trace(A) == TraceTo(A, Rows(A))

\* The block A[r0:r1, c0:c1]
Block(A, r0, r1, c0, c1) ==
    Arr([i \in 1..(r1 - r0) |-> Arr([j \in 1..(c1 - c0) |-> A[r0 + i][c0 + j]])])

\* np.linalg.inv: Gaussian elimination with partial pivoting on [A | I].
\* An exactly zero pivot is a singular matrix (LinAlgError), returned here
\* as the empty matrix.
Augmented(A) ==
    Arr([i \in 1..Rows(A) |->
        Arr([j \in 1..(2 * Rows(A)) |->
            IF j <= Rows(A) THEN A[i][j]
            ELSE IF j - Rows(A) = i THEN One ELSE 0])])

\* The first row at or below the diagonal with the largest entry in column c
RECURSIVE PivotRow(_, _, _, _)
PivotRow(M, c, i, best) ==
    IF i > Rows(M) THEN best
    ELSE IF Abs(M[i][c]) > Abs(M[best][c]) THEN PivotRow(M, c, i + 1, i)
    ELSE PivotRow(M, c, i + 1, best)

SwapRows(M, a, b) ==
    [i \in 1..Rows(M) |-> IF i = a THEN M[b] ELSE IF i = b THEN M[a] ELSE M[i]]

ScaledRow(r, pivot) == Arr([j \in 1..Len(r) |-> Div(r[j], pivot)])

EliminateWith(M, c, prow) ==
    Arr([i \in 1..Rows(M) |->
        IF i = c THEN prow
        ELSE IF M[i][c] = 0 THEN M[i]
        ELSE Arr([j \in 1..Len(prow) |-> M[i][j] - Mul(M[i][c], prow[j])])])

PivotStep(M, c) == EliminateWith(M, c, ScaledRow(M[c], M[c][c]))

RECURSIVE GaussJordan(_, _)
GaussJordan(M, c) ==
    IF c > Rows(M) THEN M
    ELSE IF M[PivotRow(M, c, c, c)][c] = 0 THEN <<>>
    ELSE GaussJordan(PivotStep(Arr(SwapRows(M, c, PivotRow(M, c, c, c))), c), c + 1)

RightHalf(M) ==
    IF M = <<>> THEN <<>>
    ELSE Arr([i \in 1..Rows(M) |->
             Arr([j \in 1..Rows(M) |-> M[i][Rows(M) + j]])])

inv(A) == RightHalf(GaussJordan(Augmented(A), 1))

-----------------------------------------------------------------------------
(* scipy.spatial.transform.Rotation: a unit quaternion <<x, y, z, w>>      *)

\* Rotation.identity()
Identity == <<0, 0, 0, One>>

\* Rotation.from_quat: the quaternion is normalised on entry
from_quat(q) == Normalized(q)

\* Rotation.as_quat
as_quat(r) == r

\* The Hamilton product p (x) q of two <<x, y, z, w>> quaternions
compose_quat(p, q) ==
    << Mul(p[4], q[1]) + Mul(q[4], p[1]) + Mul(p[2], q[3]) - Mul(p[3], q[2]),
       Mul(p[4], q[2]) + Mul(q[4], p[2]) + Mul(p[3], q[1]) - Mul(p[1], q[3]),
       Mul(p[4], q[3]) + Mul(q[4], p[3]) + Mul(p[1], q[2]) - Mul(p[2], q[1]),
       Mul(p[4], q[4]) - Mul(p[1], q[1]) - Mul(p[2], q[2]) - Mul(p[3], q[3]) >>

\* Rotation.__mul__: p * q applies q first; the product is normalised
RotMul(p, q) == Normalized(compose_quat(p, q))

\* Rotation.inv
RotInv(r) == <<-r[1], -r[2], -r[3], r[4]>>

\* Rotation.as_matrix
as_matrix(r) ==
    << << Mul(r[1], r[1]) - Mul(r[2], r[2]) - Mul(r[3], r[3]) + Mul(r[4], r[4]),
          2 * (Mul(r[1], r[2]) - Mul(r[3], r[4])),
          2 * (Mul(r[1], r[3]) + Mul(r[2], r[4])) >>,
       << 2 * (Mul(r[1], r[2]) + Mul(r[3], r[4])),
          Mul(r[2], r[2]) - Mul(r[1], r[1]) - Mul(r[3], r[3]) + Mul(r[4], r[4]),
          2 * (Mul(r[2], r[3]) - Mul(r[1], r[4])) >>,
       << 2 * (Mul(r[1], r[3]) - Mul(r[2], r[4])),
          2 * (Mul(r[2], r[3]) + Mul(r[1], r[4])),
          Mul(r[3], r[3]) - Mul(r[1], r[1]) - Mul(r[2], r[2]) + Mul(r[4], r[4]) >> >>

\* Rotation.apply: the rotation matrix times the vector
RotApply(r, v) == MatVec(as_matrix(r), v)

\* Rotation.from_matrix for an orthonormal matrix: the largest of the
\* diagonal entries and the trace selects the formula; then normalise.
from_matrix_raw(M, tr) ==
    IF tr >= M[1][1] /\ tr >= M[2][2] /\ tr >= M[3][3]
    THEN << M[3][2] - M[2][3], M[1][3] - M[3][1], M[2][1] - M[1][2], One + tr >>
    ELSE IF M[1][1] >= M[2][2] /\ M[1][1] >= M[3][3]
    THEN << One - tr + 2 * M[1][1], M[2][1] + M[1][2], M[3][1] + M[1][3],
            M[3][2] - M[2][3] >>
    ELSE IF M[2][2] >= M[3][3]
    THEN << M[1][2] + M[2][1], One - tr + 2 * M[2][2], M[3][2] + M[2][3],
            M[1][3] - M[3][1] >>
    ELSE << M[1][3] + M[3][1], M[2][3] + M[3][2], One - tr + 2 * M[3][3],
            M[2][1] - M[1][2] >>

from_matrix(M) == Normalized(from_matrix_raw(M, Trace(M)))

\* sin and cos by their Taylor series, for |h| up to a quarter turn
Sin(h) ==
    h - Mul(Mul(h, h), h) \div 6
      + Mul(Mul(Mul(h, h), Mul(h, h)), h) \div 120
      - Mul(Mul(Mul(Mul(h, h), Mul(h, h)), Mul(h, h)), h) \div 5040

Cos(h) ==
    One - Mul(h, h) \div 2
        + Mul(Mul(h, h), Mul(h, h)) \div 24
        - Mul(Mul(Mul(h, h), Mul(h, h)), Mul(h, h)) \div 720

\* Rotation.from_rotvec: a turn by |v| about v.  Below an angle of 0.001 the
\* scale sin(angle/2)/angle is its series 1/2 - angle^2/48.
RotvecScale(angle) ==
    IF angle <= 10 THEN One \div 2 - Mul(angle, angle) \div 48
    ELSE Div(Sin(angle \div 2), angle)

from_rotvec_scaled(v, angle, scale) ==
    << Mul(v[1], scale), Mul(v[2], scale), Mul(v[3], scale), Cos(angle \div 2) >>

from_rotvec_angle(v, angle) == from_rotvec_scaled(v, angle, RotvecScale(angle))

from_rotvec(v) == from_rotvec_angle(v, Norm(v))

-----------------------------------------------------------------------------
(* EKFFusionEngine: the record [state, covariance, Q, R]                   *)

\* The noise and covariance scales of the constructor
InitialCovarianceScale == 1000
PositionProcessNoise == 100
VelocityProcessNoise == 100
OrientationProcessNoise == 10
GyroBiasProcessNoise == 1
AccelBiasProcessNoise == 10
PositionMeasurementNoise == 100
OrientationMeasurementNoise == 10

\* The state is 16 numbers and a measurement is 7
StateDim == 16
MeasDim == 7

\* [w, x, y, z] of the state to scipy's [x, y, z, w], and back
ToXYZW(q) == <<q[2], q[3], q[4], q[1]>>

ToWXYZ(r) == <<r[4], r[1], r[2], r[3]>>

\* np.zeros(16) with state[6:10] = [1, 0, 0, 0]
DefaultState == SetSlice(Zeros(StateDim), 6, 10, <<One, 0, 0, 0>>)

\* np.eye(16) * 0.1
DefaultCovariance == MatScale(Eye(StateDim), InitialCovarianceScale)

\* np.eye(16) with its five diagonal blocks scaled
DefaultQ ==
    Arr([i \in 1..StateDim |-> Arr([j \in 1..StateDim |->
        IF i # j THEN 0
        ELSE IF i <= 3 THEN Mul(One, PositionProcessNoise)
        ELSE IF i <= 6 THEN Mul(One, VelocityProcessNoise)
        ELSE IF i <= 10 THEN Mul(One, OrientationProcessNoise)
        ELSE IF i <= 13 THEN Mul(One, GyroBiasProcessNoise)
        ELSE Mul(One, AccelBiasProcessNoise)])])

\* np.eye(7) with its two diagonal blocks scaled
DefaultR ==
    Arr([i \in 1..MeasDim |-> Arr([j \in 1..MeasDim |->
        IF i # j THEN 0
        ELSE IF i <= 3 THEN Mul(One, PositionMeasurementNoise)
        ELSE Mul(One, OrientationMeasurementNoise)])])

\* EKFFusionEngine.__init__: every argument is copied as given, or defaulted
EKFFusionEngine(initial_state, initial_covariance, process_noise, measurement_noise) ==
    [ state |-> IF initial_state # None THEN initial_state ELSE DefaultState,
      covariance |-> IF initial_covariance # None THEN initial_covariance
                     ELSE DefaultCovariance,
      Q |-> IF process_noise # None THEN process_noise ELSE DefaultQ,
      R |-> IF measurement_noise # None THEN measurement_noise ELSE DefaultR ]

\* A variant of the transition matrix in which the accel bias slows the
\* velocity: d(velocity)/d(accel_bias) = -dt
compute_state_transition_matrix_bias_coupled(dt) ==
    Arr([i \in 1..StateDim |-> Arr([j \in 1..StateDim |->
        IF i = j THEN One
        ELSE IF i <= 3 /\ j = i + 3 THEN Mul(One, dt)
        ELSE IF 3 < i /\ i <= 6 /\ j = i + 10 THEN -Mul(One, dt)
        ELSE 0])])

\* EKFFusionEngine._compute_state_transition_matrix
compute_state_transition_matrix(dt) ==
    Arr([i \in 1..StateDim |-> Arr([j \in 1..StateDim |->
        IF i = j THEN One
        ELSE IF i <= 3 /\ j = i + 3 THEN Mul(One, dt)
        ELSE 0])])

\* predict, the state: position, velocity and orientation are propagated,
\* the biases are written back as read, the quaternion is renormalised
predict_quat(state, delta_rotation) ==
    ToWXYZ(as_quat(RotMul(from_quat(ToXYZW(Slice(state, 6, 10))), delta_rotation)))

\* A variant of the prediction in which the biases decay to zero
predict_state_bias_decay(state, delta_position, delta_velocity, delta_rotation, dt) ==
    SetSlice(
      SetSlice(
        SetSlice(
          SetSlice(state, 0, 3,
                   VecAdd(VecAdd(Slice(state, 0, 3), VecScale(Slice(state, 3, 6), dt)),
                          delta_position)),
          3, 6, VecAdd(Slice(state, 3, 6), delta_velocity)),
        6, 10, Normalized(predict_quat(state, delta_rotation))),
      10, 16, Zeros(6))

\* A variant of the prediction that moves the position with the new velocity
predict_state_new_velocity(state, delta_position, delta_velocity, delta_rotation, dt) ==
    SetSlice(
      SetSlice(
        SetSlice(state, 0, 3,
                 VecAdd(VecAdd(Slice(state, 0, 3),
                               VecScale(VecAdd(Slice(state, 3, 6), delta_velocity), dt)),
                        delta_position)),
        3, 6, VecAdd(Slice(state, 3, 6), delta_velocity)),
      6, 10, Normalized(predict_quat(state, delta_rotation)))

predict_state(state, delta_position, delta_velocity, delta_rotation, dt) ==
    SetSlice(
      SetSlice(
        SetSlice(
          SetSlice(
            SetSlice(state, 0, 3,
                     VecAdd(VecAdd(Slice(state, 0, 3), VecScale(Slice(state, 3, 6), dt)),
                            delta_position)),
            3, 6, VecAdd(Slice(state, 3, 6), delta_velocity)),
          6, 10, Normalized(predict_quat(state, delta_rotation))),
        10, 13, Slice(state, 10, 13)),
      13, 16, Slice(state, 13, 16))

\* predict, the covariance: F @ P @ F.T + Q * dt
predict_covariance(P, F, Q, dt) ==
    MatAdd(MatMul(MatMul(F, P), Transpose(F)), MatScale(Q, dt))

\* EKFFusionEngine.predict.  The state is written before the covariance is
\* computed: a covariance or Q that is not 16x16 raises there.
predict(e, delta_position, delta_velocity, delta_rotation, dt) ==
    IF Shape(e.covariance) # <<StateDim, StateDim>> \/ Shape(e.Q) # <<StateDim, StateDim>>
    THEN [ ekf |-> [e EXCEPT !.state = Arr(predict_state(e.state, delta_position,
                                             delta_velocity, delta_rotation, dt))],
           raised |-> "ValueError" ]
    ELSE [ ekf |-> [e EXCEPT
                      !.state = Arr(predict_state(e.state, delta_position,
                                      delta_velocity, delta_rotation, dt)),
                      !.covariance = predict_covariance(e.covariance,
                                      compute_state_transition_matrix(dt), e.Q, dt)],
           raised |-> "none" ]

\* The measurement matrix H (7x16): position and orientation are observed
H ==
    Arr([i \in 1..MeasDim |-> Arr([j \in 1..StateDim |->
        IF (i <= 3 /\ j = i) \/ (i > 3 /\ j = i + 3) THEN One ELSE 0])])

\* update, the innovation y = z - h; when the measured and the predicted
\* quaternion have a negative dot product its orientation part is z + h
innovation_of(z, h) ==
    IF Dot(Slice(z, 3, 7), Slice(h, 3, 7)) < 0
    THEN SetSlice(VecSub(z, h), 3, 7, VecAdd(Slice(z, 3, 7), Slice(h, 3, 7)))
    ELSE VecSub(z, h)

innovation(state, measured_position, measured_rotation) ==
    innovation_of(measured_position \o ToWXYZ(as_quat(measured_rotation)),
                  Slice(state, 0, 3) \o Slice(state, 6, 10))

\* S = H @ P @ H.T + R
innovation_covariance(P, R) == MatAdd(MatMul(MatMul(H, P), Transpose(H)), R)

\* A variant of the gain that is twice the Kalman gain
kalman_gain_doubled(P, Sinv) ==
    MatScale(MatMul(MatMul(P, Transpose(H)), Sinv), 2 * One)

\* K = P @ H.T @ inv(S)
kalman_gain(P, Sinv) == MatMul(MatMul(P, Transpose(H)), Sinv)

\* state + K @ y, then the quaternion renormalised
updated_state(x) == SetSlice(x, 6, 10, Normalized(Slice(x, 6, 10)))

\* A variant of the covariance update with the sign of the gain reversed
updated_covariance_plus(P, K) == MatMul(MatAdd(Eye(StateDim), MatMul(K, H)), P)

\* (I - K @ H) @ P
updated_covariance(P, K) == MatMul(MatSub(Eye(StateDim), MatMul(K, H)), P)

update_with_gain(e, y, K) ==
    IF Len(e.state) # StateDim
    THEN [ekf |-> e, raised |-> "ValueError"]
    ELSE [ ekf |-> [e EXCEPT
                      !.state = Arr(updated_state(VecAdd(e.state, MatVec(K, y)))),
                      !.covariance = updated_covariance(e.covariance, K)],
           raised |-> "none" ]

\* A variant of update that returns normally when inv(S) fails
update_with_inverse_silent(e, y, Sinv) ==
    IF Sinv = <<>>
    THEN [ekf |-> e, raised |-> "none"]
    ELSE update_with_gain(e, y, kalman_gain(e.covariance, Sinv))

update_with_inverse(e, y, Sinv) ==
    IF Sinv = <<>>
    THEN [ekf |-> e, raised |-> "LinAlgError"]
    ELSE update_with_gain(e, y, kalman_gain(e.covariance, Sinv))

\* EKFFusionEngine.update.  Nothing is written before inv(S) has returned.
update(e, measured_position, measured_rotation) ==
    IF Shape(e.covariance) # <<StateDim, StateDim>> \/ Shape(e.R) # <<MeasDim, MeasDim>>
    THEN [ekf |-> e, raised |-> "ValueError"]
    ELSE update_with_inverse(e,
             Arr(innovation(e.state, measured_position, measured_rotation)),
             inv(innovation_covariance(e.covariance, e.R)))

\* The keys of get_state's dictionary that hold numpy arrays
StateArrays == {"position", "velocity", "quaternion", "gyro_bias", "accel_bias"}

\* The slice of the state behind each of them
SliceOf(k) ==
    CASE k = "position" -> <<0, 3>>
      [] k = "velocity" -> <<3, 6>>
      [] k = "quaternion" -> <<6, 10>>
      [] k = "gyro_bias" -> <<10, 13>>
      [] k = "accel_bias" -> <<13, 16>>

\* A variant of get_state that returns state[6:10] itself, without .copy()
get_state_quat_view(e) ==
    [ position |-> Slice(e.state, 0, 3),
      velocity |-> Slice(e.state, 3, 6),
      orientation |-> from_quat(ToXYZW(Slice(e.state, 6, 10))),
      quaternion |-> Slice(e.state, 6, 10),
      gyro_bias |-> Slice(e.state, 10, 13),
      accel_bias |-> Slice(e.state, 13, 16),
      views |-> {"quaternion"} ]

\* EKFFusionEngine.get_state: copies of the blocks of the state.  views is
\* the set of keys whose array is a view of self.state: every array is made
\* by .copy(), so there is none
get_state(e) ==
    [ position |-> Slice(e.state, 0, 3),
      velocity |-> Slice(e.state, 3, 6),
      orientation |-> from_quat(ToXYZW(Slice(e.state, 6, 10))),
      quaternion |-> Slice(e.state, 6, 10),
      gyro_bias |-> Slice(e.state, 10, 13),
      accel_bias |-> Slice(e.state, 13, 16),
      views |-> {} ]

\* EKFFusionEngine.get_covariance: self.covariance.copy(), which is no view
\* of the filter's matrix
get_covariance(e) == [covariance |-> e.covariance, views |-> {}]

\* EKFFusionEngine.get_position_uncertainty: the square root of a negative
\* trace is NaN
get_position_uncertainty(e) ==
    IF Trace(Block(e.covariance, 0, 3, 0, 3)) < 0 THEN NaN
    ELSE Sqrt(Trace(Block(e.covariance, 0, 3, 0, 3)))

\* A variant of reset that writes the position and the orientation over the
\* old state and leaves the covariance
reset_in_place(e, position, orientation) ==
    [e EXCEPT
       !.state = SetSlice(
                   SetSlice(e.state, 0, 3,
                            IF position # None THEN position ELSE Zeros(3)),
                   6, 10,
                   IF orientation # None THEN ToWXYZ(as_quat(orientation))
                   ELSE <<One, 0, 0, 0>>)]

\* EKFFusionEngine.reset
reset(e, position, orientation) ==
    [e EXCEPT
       !.state = SetSlice(
                   SetSlice(Zeros(StateDim), 0, 3,
                            IF position # None THEN position ELSE Zeros(3)),
                   6, 10,
                   IF orientation # None THEN ToWXYZ(as_quat(orientation))
                   ELSE <<One, 0, 0, 0>>),
       !.covariance = MatScale(Eye(StateDim), InitialCovarianceScale)]

\* EKFFusionEngine.is_initialized: the position is more than 1 mm from the
\* origin
InitializedThreshold == 10

\* A variant that also answers true once the covariance has left its
\* initial value
is_initialized_or_covariance(e) ==
    \/ Norm(Slice(e.state, 0, 3)) > InitializedThreshold
    \/ e.covariance # MatScale(Eye(StateDim), InitialCovarianceScale)

is_initialized(e) == Norm(Slice(e.state, 0, 3)) > InitializedThreshold

\* What a caller of the filter holds: the dictionary get_state returned to it
\* and the matrix get_covariance returned to it, if any
NothingHeld == [state |-> None, covariance |-> None]

\* The dictionary d once the filter's state array holds the state x: an
\* array that is a view of it shows x
Shown(d, x) ==
    [k \in DOMAIN d |->
        IF k \in d.views THEN Slice(x, SliceOf(k)[1], SliceOf(k)[2]) ELSE d[k]]

\* What the caller holds after a call of the filter.  predict writes
\* self.state in place; update and reset bind self.state to a new array, and
\* every call that writes the covariance binds self.covariance to a new one:
\* an array bound anew leaves the views of the old one behind
AfterCall(c, name, e, raised) ==
    [ state |->
        IF c.state = None THEN None
        ELSE IF name = "predict" THEN Some(Shown(c.state[1], e.state))
        ELSE IF name = "reset" \/ (name = "update" /\ raised = "none")
        THEN Some([c.state[1] EXCEPT !.views = {}])
        ELSE c.state,
      covariance |->
        IF c.covariance = None THEN None
        ELSE IF raised = "none" THEN Some([c.covariance[1] EXCEPT !.views = {}])
        ELSE c.covariance ]

\* The caller adds 1 to every element of an array it holds (a += 1.0): an
\* array that is a view of the filter's changes the filter with it
Incremented(a) == Arr([i \in 1..Len(a) |-> a[i] + One])

MutateState(c, e, k) ==
    [ caller |-> [c EXCEPT !.state[1][k] = Incremented(@)],
      ekf |-> IF k \in c.state[1].views
              THEN [e EXCEPT !.state = SetSlice(@, SliceOf(k)[1], SliceOf(k)[2],
                                                 Incremented(c.state[1][k]))]
              ELSE e ]

MutateCovariance(c, e) ==
    [ caller |-> [c EXCEPT !.covariance[1].covariance =
                               Arr([i \in 1..Len(@) |-> Incremented(@[i])])],
      ekf |-> IF c.covariance[1].views # {}
              THEN [e EXCEPT !.covariance =
                               Arr([i \in 1..Len(@) |-> Incremented(@[i])])]
              ELSE e ]

-----------------------------------------------------------------------------
(* IMUProcessor: the record of its biases, gravity and accumulators.  A    *)
(* sample is the pair <<timestamp, reading>>.                              *)

\* Standard gravity, 9.81, and the 0.5 of the position step
StandardGravity == 98100
Half == 5000

\* IMUProcessor.reset_integration: the accumulators are new arrays, which no
\* caller holds
reset_integration(self) ==
    [self EXCEPT !.delta_position = Zeros(3), !.delta_velocity = Zeros(3),
                 !.delta_rotation = Identity, !.dt_total = 0, !.held = FALSE]

\* IMUProcessor.__init__
IMUProcessor(gyro_bias, accel_bias, gravity) ==
    reset_integration(
      [ gyro_bias |-> IF gyro_bias # None THEN gyro_bias ELSE Zeros(3),
        accel_bias |-> IF accel_bias # None THEN accel_bias ELSE Zeros(3),
        gravity |-> IF gravity # None THEN gravity ELSE <<0, 0, -StandardGravity>>,
        delta_position |-> Zeros(3), delta_velocity |-> Zeros(3),
        delta_rotation |-> Identity, dt_total |-> 0, held |-> FALSE ])

\* sorted(measurements, key = timestamp): a stable insertion sort
RECURSIVE InsertSample(_, _)
InsertSample(s, x) ==
    IF s = <<>> THEN <<x>>
    ELSE IF s[Len(s)][1] <= x[1] THEN Append(s, x)
    ELSE Append(InsertSample(SubSeq(s, 1, Len(s) - 1), x), s[Len(s)])

RECURSIVE sorted(_)
sorted(s) ==
    IF s = <<>> THEN <<>>
    ELSE InsertSample(sorted(SubSeq(s, 1, Len(s) - 1)), s[Len(s)])

\* The locals of preintegrate when its loop starts, with the accumulators
\* of the integrator the loop adds to; iterations counts the passes of the
\* loop and steps those that integrated
LoopStart(self, gyro_measurements, accel_measurements, initial_rotation) ==
    [ gyro |-> sorted(gyro_measurements), accel |-> sorted(accel_measurements),
      gyro_idx |-> 0, accel_idx |-> 0,
      current_rotation |-> initial_rotation,
      delta_position |-> self.delta_position,
      delta_velocity |-> self.delta_velocity,
      dt_total |-> self.dt_total,
      iterations |-> 0, steps |-> 0 ]

\* The loop's condition
LoopCond(fr) ==
    fr.gyro_idx < Len(fr.gyro) - 1 /\ fr.accel_idx < Len(fr.accel) - 1

\* The time step of a pass: the earlier next timestamp minus the earlier
\* current one
StepDt(fr) ==
    Min(fr.gyro[fr.gyro_idx + 2][1], fr.accel[fr.accel_idx + 2][1])
    - Min(fr.gyro[fr.gyro_idx + 1][1], fr.accel[fr.accel_idx + 1][1])

\* A variant that moves both streams on when their next samples are at the
\* same time
AdvanceBothOnTie(fr) ==
    IF fr.gyro[fr.gyro_idx + 2][1] = fr.accel[fr.accel_idx + 2][1]
    THEN [fr EXCEPT !.gyro_idx = @ + 1, !.accel_idx = @ + 1, !.iterations = @ + 1]
    ELSE IF fr.gyro[fr.gyro_idx + 2][1] < fr.accel[fr.accel_idx + 2][1]
    THEN [fr EXCEPT !.gyro_idx = @ + 1, !.iterations = @ + 1]
    ELSE [fr EXCEPT !.accel_idx = @ + 1, !.iterations = @ + 1]

\* Move to the next measurement of the stream whose next sample is earlier
Advance(fr) ==
    IF fr.gyro[fr.gyro_idx + 2][1] <= fr.accel[fr.accel_idx + 2][1]
    THEN [fr EXCEPT !.gyro_idx = @ + 1, !.iterations = @ + 1]
    ELSE [fr EXCEPT !.accel_idx = @ + 1, !.iterations = @ + 1]

\* A variant that turns by the reading of the next gyro sample
StepRotationNext(self, fr, dt) ==
    RotMul(fr.current_rotation,
           from_rotvec(VecScale(VecSub(fr.gyro[fr.gyro_idx + 2][2], self.gyro_bias), dt)))

\* current_rotation * from_rotvec((gyro - gyro_bias) * dt)
StepRotation(self, fr, dt) ==
    RotMul(fr.current_rotation,
           from_rotvec(VecScale(VecSub(fr.gyro[fr.gyro_idx + 1][2], self.gyro_bias), dt)))

\* A variant that turns the raw acceleration, without the bias correction
AccelWorldUncorrected(self, fr, rotation) ==
    VecSub(RotApply(rotation, fr.accel[fr.accel_idx + 1][2]), self.gravity)

\* The bias-corrected acceleration turned by the new rotation, less gravity
AccelWorld(self, fr, rotation) ==
    VecSub(RotApply(rotation, VecSub(fr.accel[fr.accel_idx + 1][2], self.accel_bias)),
           self.gravity)

\* A variant that moves the position with the velocity from before the pass
IntegrateWithOldVelocity(fr, dt, rotation, accel_world, new_velocity) ==
    [fr EXCEPT
       !.current_rotation = rotation,
       !.delta_velocity = new_velocity,
       !.delta_position =
           VecAdd(@, VecAdd(VecScale(fr.delta_velocity, dt),
                            VecScale(VecScale(VecScale(accel_world, Half), dt), dt))),
       !.dt_total = @ + dt,
       !.steps = @ + 1]

\* One integrated pass: the velocity first, then the position from the new
\* velocity
IntegrateWith(fr, dt, rotation, accel_world, new_velocity) ==
    [fr EXCEPT
       !.current_rotation = rotation,
       !.delta_velocity = new_velocity,
       !.delta_position =
           VecAdd(@, VecAdd(VecScale(new_velocity, dt),
                            VecScale(VecScale(VecScale(accel_world, Half), dt), dt))),
       !.dt_total = @ + dt,
       !.steps = @ + 1]

IntegrateAccel(fr, dt, rotation, accel_world) ==
    IntegrateWith(fr, dt, rotation, accel_world,
                  VecAdd(fr.delta_velocity, VecScale(accel_world, dt)))

IntegrateRotated(self, fr, dt, rotation) ==
    IntegrateAccel(fr, dt, rotation, AccelWorld(self, fr, rotation))

Integrate(self, fr, dt) ==
    IntegrateRotated(self, fr, dt, StepRotation(self, fr, dt))

\* A variant in which a skipped pass moves both streams on
LoopBodySkipPair(self, fr) ==
    IF StepDt(fr) <= 0
    THEN [fr EXCEPT !.gyro_idx = @ + 1, !.accel_idx = @ + 1, !.iterations = @ + 1]
    ELSE Advance(Integrate(self, fr, StepDt(fr)))

\* One pass of the loop: a step of dt <= 0 is skipped
LoopBody(self, fr) ==
    IF StepDt(fr) <= 0 THEN Advance(fr)
    ELSE Advance(Integrate(self, fr, StepDt(fr)))

RECURSIVE RunLoop(_, _)
RunLoop(self, fr) ==
    IF LoopCond(fr) THEN RunLoop(self, LoopBody(self, fr)) ELSE fr

\* The locals at every test of the loop's condition, from the first to the
\* one that leaves the loop
RECURSIVE LoopFrames(_, _)
LoopFrames(self, fr) ==
    IF LoopCond(fr) THEN <<fr>> \o LoopFrames(self, LoopBody(self, fr)) ELSE <<fr>>

\* A variant of the relative rotation without the inverse
RelativeRotationNoInverse(initial_rotation, current_rotation) ==
    RotMul(initial_rotation, current_rotation)

\* initial_rotation.inv() * current_rotation
RelativeRotation(initial_rotation, current_rotation) ==
    RotMul(RotInv(initial_rotation), current_rotation)

\* A variant of the end of preintegrate that returns the rotation reached,
\* not the rotation relative to initial_rotation
PreintegrateEndAbsolute(self, fr, initial_rotation) ==
    [ imu |-> [self EXCEPT
                 !.delta_position = fr.delta_position,
                 !.delta_velocity = fr.delta_velocity,
                 !.delta_rotation = fr.current_rotation,
                 !.dt_total = fr.dt_total,
                 !.held = TRUE],
      result |-> <<fr.delta_position, fr.delta_velocity, fr.current_rotation>>,
      aliased |-> self.held,
      loop |-> fr,
      iterations |-> fr.iterations,
      steps |-> fr.steps,
      raised |-> "none" ]

\* After the loop: delta_rotation is initial_rotation.inv() * current_rotation.
\* The arrays returned are the accumulators themselves, from now on held by
\* the caller; aliased tells that an earlier caller held them already, and
\* loop holds the locals the loop ended with.
PreintegrateEnd(self, fr, initial_rotation) ==
    [ imu |-> [self EXCEPT
                 !.delta_position = fr.delta_position,
                 !.delta_velocity = fr.delta_velocity,
                 !.delta_rotation = RelativeRotation(initial_rotation, fr.current_rotation),
                 !.dt_total = fr.dt_total,
                 !.held = TRUE],
      result |-> << fr.delta_position, fr.delta_velocity,
                    RelativeRotation(initial_rotation, fr.current_rotation) >>,
      aliased |-> self.held,
      loop |-> fr,
      iterations |-> fr.iterations,
      steps |-> fr.steps,
      raised |-> "none" ]

PreintegrateFrom(self, gyro_measurements, accel_measurements, initial_rotation) ==
    PreintegrateEnd(self,
        RunLoop(self, LoopStart(self, gyro_measurements, accel_measurements,
                                initial_rotation)),
        initial_rotation)

\* A variant of preintegrate that goes on from the accumulators of the call
\* before
preintegrate_accumulating(self, gyro_measurements, accel_measurements, initial_rotation) ==
    PreintegrateFrom(self, gyro_measurements, accel_measurements,
        IF initial_rotation = None THEN Identity ELSE initial_rotation)

\* IMUProcessor.preintegrate
preintegrate(self, gyro_measurements, accel_measurements, initial_rotation) ==
    PreintegrateFrom(reset_integration(self), gyro_measurements, accel_measurements,
        IF initial_rotation = None THEN Identity ELSE initial_rotation)

\* IMUProcessor.update_bias
update_bias(self, gyro_bias, accel_bias) ==
    [self EXCEPT !.gyro_bias = gyro_bias, !.accel_bias = accel_bias]

\* IMUProcessor.get_bias
get_bias(self) == <<self.gyro_bias, self.accel_bias>>

\* IMUProcessor.get_integration_info
get_integration_info(self) ==
    [ delta_position |-> self.delta_position,
      delta_velocity |-> self.delta_velocity,
      delta_rotation |-> as_quat(self.delta_rotation),
      total_time |-> self.dt_total ]

IMUProcessorDefault == IMUProcessor(None, None, None)

-----------------------------------------------------------------------------
(* VIOSystem: the record [last_frame_time, frame_count] beside its filter  *)
(* and its integrator.  A frame is the record of process_frame's           *)
(* arguments, with the detections the detector returns for its image.      *)

VIOSystemDefault == [last_frame_time |-> None, frame_count |-> 0]

\* One entry of the log of the calls process_frame makes
Made(fn, arg, raised) == [fn |-> fn, arg |-> arg, raised |-> raised]

\* process_frame, first line: the frame is counted
FrameBegin(e, i, v) ==
    [ ekf |-> e, imu |-> i, vio |-> [v EXCEPT !.frame_count = @ + 1],
      calls |-> <<>>, raised |-> "none", result |-> None ]

\* Step 1: the integrator runs from the filter's orientation, then predict
\* A variant of step 1 that hands the bias estimates of the filter to the
\* integrator
PredictDoneSynced(m, orientation, pre, dt, r) ==
    [m EXCEPT
       !.imu = update_bias(pre.imu, get_state(r.ekf).gyro_bias,
                           get_state(r.ekf).accel_bias),
       !.ekf = r.ekf,
       !.raised = r.raised,
       !.calls = m.calls \o
                  << Made("preintegrate", orientation, pre.raised),
                     Made("predict", <<pre.result[1], pre.result[2], pre.result[3], dt>>,
                          r.raised) >>]

PredictDone(m, orientation, pre, dt, r) ==
    [m EXCEPT
       !.imu = pre.imu,
       !.ekf = r.ekf,
       !.raised = r.raised,
       !.calls = m.calls \o
                  << Made("preintegrate", orientation, pre.raised),
                    Made("predict", <<pre.result[1], pre.result[2], pre.result[3], dt>>,
                         r.raised) >>]

PredictWith(m, orientation, pre, dt) ==
    PredictDone(m, orientation, pre, dt,
                predict(m.ekf, pre.result[1], pre.result[2], pre.result[3], dt))

PredictFrom(m, f, orientation) ==
    PredictWith(m, orientation,
        preintegrate(m.imu, f.gyro_measurements, f.accel_measurements, orientation),
        f.timestamp - m.vio.last_frame_time[1])

\* A variant of step 1 that also asks for accelerometer samples
FramePredictBoth(m, f) ==
    IF m.vio.last_frame_time # None /\ Len(f.gyro_measurements) > 0
       /\ Len(f.accel_measurements) > 0
    THEN PredictFrom(m, f, get_state(m.ekf).orientation)
    ELSE m

FramePredict(m, f) ==
    IF m.vio.last_frame_time # None /\ Len(f.gyro_measurements) > 0
    THEN PredictFrom(m, f, get_state(m.ekf).orientation)
    ELSE m

\* Step 2: the first detection, if any, is the measurement of update
UpdateDone(m, f, measured_position, measured_rotation, r) ==
    [m EXCEPT
       !.ekf = r.ekf,
       !.raised = r.raised,
       !.calls = m.calls \o << Made("detect", Len(f.detections), "none"),
                               Made("update", <<measured_position, measured_rotation>>,
                                    r.raised) >>]

UpdateFrom(m, f, measured_position, measured_rotation) ==
    UpdateDone(m, f, measured_position, measured_rotation,
               update(m.ekf, measured_position, measured_rotation))

\* A variant of step 2 that takes the detection with the fewest corrected
\* bits
FrameUpdateBest(m, f) ==
    IF m.raised # "none" THEN m
    ELSE IF Len(f.detections) > 0
    THEN UpdateFrom(m, f,
           f.detections[CHOOSE i \in 1..Len(f.detections) :
               \A j \in 1..Len(f.detections) :
                   f.detections[i].hamming <= f.detections[j].hamming].translation,
           from_matrix(f.detections[CHOOSE i \in 1..Len(f.detections) :
               \A j \in 1..Len(f.detections) :
                   f.detections[i].hamming <= f.detections[j].hamming].rotation_matrix))
    ELSE [m EXCEPT !.calls = m.calls \o <<Made("detect", 0, "none")>>]

FrameUpdate(m, f) ==
    IF m.raised # "none" THEN m
    ELSE IF Len(f.detections) > 0
    THEN UpdateFrom(m, f, f.detections[1].translation,
                    from_matrix(f.detections[1].rotation_matrix))
    ELSE [m EXCEPT !.calls = m.calls \o <<Made("detect", 0, "none")>>]

\* The end: the state is read, the time of the frame is kept, the dictionary
\* is returned
FrameResult(m, f, state) ==
    [ position |-> state.position, velocity |-> state.velocity,
      orientation |-> state.orientation, quaternion |-> state.quaternion,
      uncertainty |-> get_position_uncertainty(m.ekf),
      detections |-> Len(f.detections), timestamp |-> f.timestamp ]

\* A variant of the end that returns None, and keeps the old time, for a
\* frame without a detection
FrameEndTracked(m, f) ==
    IF m.raised # "none" \/ Len(f.detections) = 0 THEN m
    ELSE [m EXCEPT !.vio.last_frame_time = Some(f.timestamp),
                   !.result = Some(FrameResult(m, f, get_state(m.ekf)))]

FrameEnd(m, f) ==
    IF m.raised # "none" THEN m
    ELSE [m EXCEPT !.vio.last_frame_time = Some(f.timestamp),
                   !.result = Some(FrameResult(m, f, get_state(m.ekf)))]

\* A variant of process_frame that corrects before it predicts
process_frame_update_first(e, i, v, f) ==
    FrameEnd(FramePredict(FrameUpdate(FrameBegin(e, i, v), f), f), f)

\* A variant of process_frame that counts a frame when it returns
CountReturned(m) ==
    IF m.raised = "none" THEN [m EXCEPT !.vio.frame_count = @ + 1] ELSE m

process_frame_counting_returns(e, i, v, f) ==
    CountReturned(
        FrameEnd(FrameUpdate(FramePredict([FrameBegin(e, i, v) EXCEPT !.vio = v], f), f), f))

\* VIOSystem.process_frame
process_frame(e, i, v, f) ==
    FrameEnd(FrameUpdate(FramePredict(FrameBegin(e, i, v), f), f), f)

\* A variant of VIOSystem.reset that keeps the time of the last frame
vio_reset_keeps_time(e, i, v) ==
    [ ekf |-> reset(e, None, None), imu |-> reset_integration(i),
      vio |-> [v EXCEPT !.frame_count = 0] ]

\* VIOSystem.reset
vio_reset(e, i, v) ==
    [ ekf |-> reset(e, None, None), imu |-> reset_integration(i),
      vio |-> [v EXCEPT !.last_frame_time = None, !.frame_count = 0] ]

\* VIOSystem.get_current_pose
get_current_pose(e) == get_state(e)

-----------------------------------------------------------------------------
(* The filter on its own: any constructor arguments, then any calls        *)

\* How many calls a run makes
MaxCalls == 2

\* A covariance that couples position x with quaternion w (symmetric,
\* positive semi-definite), and a measurement noise with an exact position x
CoupledCovariance ==
    Arr([i \in 1..StateDim |-> Arr([j \in 1..StateDim |->
        IF i = j \/ (i = 1 /\ j = 7) \/ (i = 7 /\ j = 1) THEN One ELSE 0])])

ExactXNoise ==
    Arr([i \in 1..MeasDim |-> Arr([j \in 1..MeasDim |->
        IF i = j /\ i > 1 THEN One ELSE 0])])

\* A state of 15 numbers and a 15x15 covariance
ShortState == SetSlice(Zeros(StateDim - 1), 6, 10, <<One, 0, 0, 0>>)

ShortCovariance == MatScale(Eye(StateDim - 1), InitialCovarianceScale)

\* A state with a gyro bias of 0.01 rad/s and an accel bias of 0.1 m/s^2
BiasedState ==
    SetSlice(SetSlice(DefaultState, 10, 13, <<100, 0, 0>>), 13, 16, <<0, 0, 1000>>)

Ctor(s, c, q, r) ==
    [initial_state |-> s, initial_covariance |-> c, process_noise |-> q,
     measurement_noise |-> r]

CtorArgs ==
    { Ctor(None, None, None, None),
      Ctor(None, CoupledCovariance, None, ExactXNoise),
      Ctor(None, ZerosMat(StateDim, StateDim), None, ZerosMat(MeasDim, MeasDim)),
      Ctor(ShortState, None, None, None),
      Ctor(BiasedState, None, None, None),
      Ctor(None, ShortCovariance, None, None) }

\* A quarter turn about z and a turn about x with w = 0.6
RotZ90 == <<0, 0, 7071, 7071>>
RotX106 == <<8000, 0, 0, 6000>>

PredictArgs ==
    { [delta_position |-> Zeros(3), delta_velocity |-> Zeros(3),
       delta_rotation |-> Identity, dt |-> One],
      [delta_position |-> <<1000, 0, 0>>, delta_velocity |-> <<0, 2000, 0>>,
       delta_rotation |-> RotZ90, dt |-> One \div 2] }

MeasuredPositions == {<<One, 0, 0>>, <<-One, 0, 0>>}

MeasuredRotations == {Identity, VecNeg(Identity), RotX106}

UpdateArgs ==
    { [measured_position |-> p, measured_rotation |-> r] :
        p \in MeasuredPositions, r \in MeasuredRotations }

ResetArgs ==
    { [position |-> None, orientation |-> None],
      [position |-> <<One, 0, 0>>, orientation |-> RotX106] }

\* The record of the last call: its name, arguments, the exception that
\* left it ("none" when it returned), and the number of calls so far
Call(name, args, raised, n) ==
    [name |-> name, args |-> args, raised |-> raised, n |-> n,
     calls |-> <<>>, result |-> None]

InitEKF ==
    /\ \E a \in CtorArgs :
          /\ ekf = EKFFusionEngine(a.initial_state, a.initial_covariance,
                                    a.process_noise, a.measurement_noise)
          /\ op = Call("__init__", a, "none", 0)
    /\ imu = IMUProcessorDefault
    /\ vio = VIOSystemDefault
    /\ caller = NothingHeld

\* A call of the filter took it to r.ekf and raised r.raised
EKFReturn(name, args, r) ==
    /\ ekf' = r.ekf
    /\ op' = Call(name, args, r.raised, op.n + 1)
    /\ caller' = AfterCall(caller, name, r.ekf, r.raised)
    /\ UNCHANGED <<imu, vio>>

PredictAny(args) ==
    /\ op.n < MaxCalls
    /\ ~HasNaN(ekf.state)
    /\ \E a \in args :
          EKFReturn("predict", a,
                    predict(ekf, a.delta_position, a.delta_velocity,
                            a.delta_rotation, a.dt))

Predict == PredictAny(PredictArgs)

UpdateAny(args) ==
    /\ op.n < MaxCalls
    /\ ~HasNaN(ekf.state)
    /\ \E a \in args :
          EKFReturn("update", a,
                    update(ekf, a.measured_position, a.measured_rotation))

Update == UpdateAny(UpdateArgs)

Reset ==
    /\ op.n < MaxCalls
    /\ \E a \in ResetArgs :
          EKFReturn("reset", a,
                    [ekf |-> reset(ekf, a.position, a.orientation), raised |-> "none"])

NextEKF == Predict \/ Update \/ Reset

SpecEKF == InitEKF /\ [][NextEKF]_vars

-----------------------------------------------------------------------------
(* A caller of the filter: it reads the filter between the calls that move *)
(* it, keeps what get_state and get_covariance returned, and writes into   *)
(* the arrays it was given.                                                *)

\* Measurements at the origin and one metre along x
QueryUpdateArgs ==
    { [measured_position |-> p, measured_rotation |-> Identity] :
        p \in {Zeros(3), <<One, 0, 0>>} }

InitQuery ==
    /\ \E s \in {None, BiasedState} :
          /\ ekf = EKFFusionEngine(s, None, None, None)
          /\ op = Call("__init__", Ctor(s, None, None, None), "none", 0)
    /\ imu = IMUProcessorDefault
    /\ vio = VIOSystemDefault
    /\ caller = NothingHeld

\* A read of the filter returned result; calls holds the call it came after
Query(name, args, result) ==
    [Call(name, args, "none", op.n + 1)
       EXCEPT !.result = Some(result),
              !.calls = <<Made(op.name, op.args, op.raised)>>]

QueryPredict == PredictAny(PredictArgs)

QueryUpdate == UpdateAny(QueryUpdateArgs)

GetState ==
    /\ op.n < MaxCalls
    /\ ~HasNaN(ekf.state)
    /\ op' = Query("get_state", None, get_state(ekf))
    /\ caller' = [caller EXCEPT !.state = Some(get_state(ekf))]
    /\ UNCHANGED <<ekf, imu, vio>>

GetCovariance ==
    /\ op.n < MaxCalls
    /\ op' = Query("get_covariance", None, get_covariance(ekf))
    /\ caller' = [caller EXCEPT !.covariance = Some(get_covariance(ekf))]
    /\ UNCHANGED <<ekf, imu, vio>>

\* The caller writes into an array it was given
MutateReturned ==
    /\ op.n < MaxCalls
    /\ \/ /\ caller.state # None
          /\ \E k \in StateArrays :
                /\ caller' = MutateState(caller, ekf, k).caller
                /\ ekf' = MutateState(caller, ekf, k).ekf
                /\ op' = Call("mutate_returned", k, "none", op.n + 1)
       \/ /\ caller.covariance # None
          /\ caller' = MutateCovariance(caller, ekf).caller
          /\ ekf' = MutateCovariance(caller, ekf).ekf
          /\ op' = Call("mutate_returned", "covariance", "none", op.n + 1)
    /\ UNCHANGED <<imu, vio>>

IsInitialized ==
    /\ op.n < MaxCalls
    /\ ~HasNaN(ekf.state)
    /\ op' = Query("is_initialized", None, is_initialized(ekf))
    /\ UNCHANGED <<ekf, imu, vio, caller>>

NextQuery ==
    \/ QueryPredict \/ QueryUpdate
    \/ GetState \/ GetCovariance \/ MutateReturned \/ IsInitialized

SpecQuery == InitQuery /\ [][NextQuery]_vars

-----------------------------------------------------------------------------
(* The integrator on its own: preintegrate and update_bias called on a     *)
(* default IMUProcessor.                                                   *)

\* The longest stream of one call
MaxSamples == 3

\* The sampling period of simulate_imu_data at its default 200 Hz
SamplePeriod == 50

\* The noise simulate_imu_data adds: 0.01 rad/s and 0.1 m/s^2, here at one
\* standard deviation on one axis
GyroNoise == 100
AccelNoise == 1000

\* n samples of one reading, the first at time t0, one period apart
Stream(n, t0, reading) ==
    [k \in 1..n |-> <<t0 + (k - 1) * SamplePeriod, reading>>]

\* The stationary readings of simulate_imu_data, without and with noise
StationaryGyro == {Zeros(3), <<GyroNoise, 0, 0>>}
StationaryAccel == {<<0, 0, StandardGravity>>, <<AccelNoise, 0, StandardGravity>>}

InitialRotations == {None, RotX106}

BiasArgs ==
    { [gyro_bias |-> <<GyroNoise, 0, 0>>, accel_bias |-> <<0, 0, AccelNoise>>],
      [gyro_bias |-> Zeros(3), accel_bias |-> Zeros(3)] }

\* Streams without motion for a pair of biases: every gyro sample is the
\* gyro bias and every accel sample is the gravity vector plus the accel
\* bias; the accel samples fall between the gyro samples
ZeroMotionArgs ==
    { [ gyro_measurements |-> Stream(ng, 0, b.gyro_bias),
        accel_measurements |->
            Stream(na, SamplePeriod \div 2,
                   VecAdd(<<0, 0, -StandardGravity>>, b.accel_bias)),
        initial_rotation |-> None ] :
      ng \in 2..MaxSamples, na \in 2..MaxSamples, b \in BiasArgs }

\* The readings of one stationary burst: both streams without noise, or
\* both with it
StationaryReadings ==
    { p \in StationaryGyro \X StationaryAccel : (p[1] = Zeros(3)) = (p[2][1] = 0) }

\* Streams that are not evenly spaced: a gyro stream with a timestamp twice,
\* an accel stream with a timestamp twice, and a gyro stream out of order;
\* the gyro turns about z, a different reading in each sample
TurningGyro(times) ==
    [k \in 1..Len(times) |-> <<times[k], <<0, 0, k * One>> >>]

IrregularArgs ==
    { [ gyro_measurements |-> TurningGyro(p[1]),
        accel_measurements |->
            [k \in 1..Len(p[2]) |-> <<p[2][k], <<0, 0, StandardGravity>> >>],
        initial_rotation |-> r ] :
      p \in { << <<0, 0, SamplePeriod>>, <<0, SamplePeriod, 2 * SamplePeriod>> >>,
              << <<0, SamplePeriod, 2 * SamplePeriod>>, <<0, 0, SamplePeriod>> >>,
              << <<SamplePeriod, 0, 2 * SamplePeriod>>,
                 <<0, SamplePeriod, 2 * SamplePeriod>> >> },
      r \in InitialRotations }

PreintegrateArgs ==
    { [ gyro_measurements |-> Stream(ng, 0, p[1]),
        accel_measurements |-> Stream(na, 0, p[2]),
        initial_rotation |-> r ] :
      ng \in 0..MaxSamples, na \in 0..MaxSamples,
      p \in StationaryReadings, r \in InitialRotations }
    \cup ZeroMotionArgs \cup IrregularArgs

\* A call of the integrator took it to r.imu and returned r.result
IMUReturn(name, args, r) ==
    /\ imu' = r.imu
    /\ op' = [name |-> name, args |-> args, raised |-> r.raised, n |-> op.n + 1,
              calls |-> <<>>, result |-> Some(r)]
    /\ UNCHANGED <<ekf, vio, caller>>

InitIMU ==
    /\ imu = IMUProcessorDefault
    /\ ekf = EKFFusionEngine(None, None, None, None)
    /\ vio = VIOSystemDefault
    /\ caller = NothingHeld
    /\ op = Call("__init__", None, "none", 0)

Preintegrate ==
    /\ op.n < MaxCalls
    /\ \E a \in PreintegrateArgs :
          IMUReturn("preintegrate", a,
                    preintegrate(imu, a.gyro_measurements, a.accel_measurements,
                                 a.initial_rotation))

UpdateBias ==
    /\ op.n < MaxCalls
    /\ \E a \in BiasArgs :
          /\ imu' = update_bias(imu, a.gyro_bias, a.accel_bias)
          /\ op' = Call("update_bias", a, "none", op.n + 1)
    /\ UNCHANGED <<ekf, vio, caller>>

NextIMU == Preintegrate \/ UpdateBias

SpecIMU == InitIMU /\ [][NextIMU]_vars

-----------------------------------------------------------------------------
(* The whole system: frames handed to a VIOSystem built with its default   *)
(* filter and integrator.                                                  *)

\* The number of calls made on one system
MaxFrames == 3

\* The longest time, in seconds, between two frames
MaxGapSeconds == 100

\* The IMU samples that come with a frame
GyroBatch == Stream(2, 0, <<0, 0, One>>)
AccelBatch == Stream(2, 0, <<0, 0, StandardGravity>>)

\* What AprilTagDetector.detect returns for a tag; the quality fields of
\* the second are the better ones
FarTag ==
    [ tag_id |-> 7, translation |-> <<One, 0, 0>>,
      rotation_matrix |-> as_matrix(RotZ90),
      hamming |-> 2, decision_margin |-> 5 * One ]

NearTag ==
    [ tag_id |-> 3, translation |-> <<0, One, 0>>,
      rotation_matrix |-> as_matrix(Identity),
      hamming |-> 0, decision_margin |-> 80 * One ]

Frame(timestamp, gyro_measurements, accel_measurements, detections) ==
    [ timestamp |-> timestamp, gyro_measurements |-> gyro_measurements,
      accel_measurements |-> accel_measurements, detections |-> detections ]

FrameInputs ==
    { Frame(101 * One, <<>>, <<>>, <<>>),
      Frame(One, GyroBatch, AccelBatch, <<>>),
      Frame(0, GyroBatch, AccelBatch, <<FarTag, NearTag>>),
      Frame(One, GyroBatch, <<>>, <<>>),
      Frame(One, <<>>, AccelBatch, <<NearTag>>) }

Init ==
    /\ ekf = EKFFusionEngine(None, None, None, None)
    /\ imu = IMUProcessorDefault
    /\ vio = VIOSystemDefault
    /\ caller = NothingHeld
    /\ op = Call("__init__", None, "none", 0)

\* process_frame(f) ended in m: by its return or by the exception m.raised
FrameReturn(f, m) ==
    /\ ekf' = m.ekf
    /\ imu' = m.imu
    /\ vio' = m.vio
    /\ op' = [name |-> "process_frame", args |-> f, raised |-> m.raised,
              n |-> op.n + 1, calls |-> m.calls, result |-> m.result]
    /\ UNCHANGED caller

ProcessFrame ==
    /\ op.n < MaxFrames
    /\ ~HasNaN(ekf.state)
    /\ \E f \in FrameInputs :
          /\ vio.last_frame_time # None =>
                 Abs(f.timestamp - vio.last_frame_time[1]) <= MaxGapSeconds * One
          /\ FrameReturn(f, process_frame(ekf, imu, vio, f))

SystemReset ==
    /\ op.n < MaxFrames
    /\ ekf' = vio_reset(ekf, imu, vio).ekf
    /\ imu' = vio_reset(ekf, imu, vio).imu
    /\ vio' = vio_reset(ekf, imu, vio).vio
    /\ op' = Call("reset", None, "none", op.n + 1)
    /\ UNCHANGED caller

GetCurrentPose ==
    /\ op.name # "get_current_pose"
    /\ ~HasNaN(ekf.state)
    /\ op' = [Call("get_current_pose", None, "none", op.n)
                EXCEPT !.result = Some(get_current_pose(ekf))]
    /\ UNCHANGED <<ekf, imu, vio, caller>>

\* The caller gives the system's integrator new bias estimates
SystemUpdateBias ==
    /\ op.n < MaxFrames
    /\ \E a \in BiasArgs :
          /\ imu' = update_bias(imu, a.gyro_bias, a.accel_bias)
          /\ op' = Call("update_bias", a, "none", op.n + 1)
    /\ UNCHANGED <<ekf, vio, caller>>

Next == ProcessFrame \/ SystemReset \/ GetCurrentPose \/ SystemUpdateBias

Spec == Init /\ [][Next]_vars

-----------------------------------------------------------------------------
(* Properties                                                              *)

\* The tolerance of a norm held in fixed point: 0.001
NormTol == One \div 1000

\* The filter's arrays have the shapes the 16-state model takes
WellShaped(e) ==
    /\ Len(e.state) = StateDim
    /\ Shape(e.covariance) = <<StateDim, StateDim>>
    /\ Shape(e.Q) = <<StateDim, StateDim>>
    /\ Shape(e.R) = <<MeasDim, MeasDim>>

\* A matrix with a row of zeros has no inverse
HasZeroRow(A) == \E i \in 1..Rows(A) : \A j \in 1..Cols(A) : A[i][j] = 0

\* The step is a call of the named operation
IsCall(name) == op'.name = name /\ op'.n = op.n + 1

\* The positions in the call log of the calls of fn
CallsOf(calls, fn) == {k \in 1..Len(calls) : calls[k].fn = fn}

\* The place of a call in the cycle preintegrate -> predict -> update
Rank(fn) ==
    CASE fn = "preintegrate" -> 1
      [] fn = "predict" -> 2
      [] fn = "detect" -> 3
      [] fn = "update" -> 4

\* C1: after every predict and every update that returns, on a filter whose
\* quaternion started at unit norm, the orientation block state[6:10] has
\* norm 1 within tolerance.
C1_UnitQuaternion ==
    (op.name \in {"predict", "update"} /\ op.raised = "none") =>
        /\ ~HasNaN(Slice(ekf.state, 6, 10))
        /\ Abs(Norm(Slice(ekf.state, 6, 10)) - One) <= NormTol

\* C2: for any prior state and covariance and any measured position, update
\* with the orientation q and update with -q give the same posterior state
\* and the same posterior covariance.
C2_DoubleCover ==
    ~HasNaN(ekf.state) =>
        \A a \in UpdateArgs :
            update(ekf, a.measured_position, a.measured_rotation)
            = update(ekf, a.measured_position, VecNeg(a.measured_rotation))

\* C6: when S = H P H^T + R cannot be inverted, update raises to its caller
\* and leaves the state and the covariance exactly as they were.
C6_SingularRaises ==
    [][ ( /\ IsCall("update")
          /\ WellShaped(ekf)
          /\ HasZeroRow(innovation_covariance(ekf.covariance, ekf.R)) )
        => (op'.raised = "LinAlgError" /\ ekf' = ekf) ]_vars

\* C6, reached: an update on a filter with P = 0 and R = 0 has raised
C6_Witness ==
    /\ op.name = "update"
    /\ op.raised = "LinAlgError"
    /\ HasZeroRow(innovation_covariance(ekf.covariance, ekf.R))

\* C7: a filter constructed without an error has a 16-vector for its state
\* and matrices of the model's dimensions: a wrong shape fails at
\* construction.
C7_ConstructionValidates ==
    (op.name = "__init__" /\ op.raised = "none") => WellShaped(ekf)

-----------------------------------------------------------------------------

\* The call was a stationary burst: default gravity, zero biases, identity
\* initial rotation, at least two samples in each stream
StationaryBurst ==
    /\ op.name = "preintegrate"
    /\ op.args.initial_rotation = None
    /\ Len(op.args.gyro_measurements) >= 2
    /\ Len(op.args.accel_measurements) >= 2
    /\ imu.gyro_bias = Zeros(3) /\ imu.accel_bias = Zeros(3)
    /\ imu.gravity = <<0, 0, -StandardGravity>>

\* What three standard deviations of accelerometer noise add to the velocity
\* over the integrated time
NoiseTol(dt_total) == Mul(3 * AccelNoise, dt_total)

\* C3: preintegrate over a burst of stationary samples (gyro about 0, accel
\* about [0, 0, 9.81]) returns a delta_velocity and a delta_position that are
\* zero up to the contribution of the sample noise.
C3_StationaryBurstIsZero ==
    StationaryBurst =>
        \A k \in 1..3 :
            /\ Abs(op.result[1].result[2][k]) <= NoiseTol(imu.dt_total)
            /\ Abs(op.result[1].result[1][k]) <= NoiseTol(imu.dt_total)

\* C4: preintegrate with fewer than 2 samples in the gyro stream or in the
\* accel stream makes no integration step and returns delta_position = 0,
\* delta_velocity = 0 and delta_rotation = identity without raising, for any
\* initial_rotation.
C4_TooFewSamples ==
    ( /\ op.name = "preintegrate"
      /\ (Len(op.args.gyro_measurements) < 2 \/ Len(op.args.accel_measurements) < 2) )
    => /\ op.raised = "none"
       /\ op.result[1].steps = 0
       /\ op.result[1].result = <<Zeros(3), Zeros(3), Identity>>

\* C4, reached: one sample in each stream and an initial rotation that is
\* not the identity
C4_Witness ==
    /\ op.name = "preintegrate"
    /\ Len(op.args.gyro_measurements) = 1
    /\ Len(op.args.accel_measurements) = 1
    /\ op.args.initial_rotation = RotX106
    /\ op.result[1].result = <<Zeros(3), Zeros(3), Identity>>

-----------------------------------------------------------------------------

\* C5: when update fails during process_frame, process_frame does not
\* abort: it returns its result and the frame counts as processed.
C5_UpdateFailureSkipped ==
    ( /\ op.name = "process_frame"
      /\ \E k \in CallsOf(op.calls, "update") : op.calls[k].raised # "none" )
    => /\ op.raised = "none"
       /\ op.result # None
       /\ vio.last_frame_time = Some(op.args.timestamp)

\* C8: process_frame calls update exactly once when the detector returns at
\* least one detection, with the translation and the rotation of the first
\* one whatever the hamming and decision_margin of the others, and not at all
\* when it returns none.
C8_FirstDetectionOnly ==
    op.name = "process_frame" =>
        IF Len(op.args.detections) > 0
        THEN /\ Cardinality(CallsOf(op.calls, "update")) = 1
             /\ \A k \in CallsOf(op.calls, "update") :
                    op.calls[k].arg =
                        << op.args.detections[1].translation,
                           from_matrix(op.args.detections[1].rotation_matrix) >>
        ELSE CallsOf(op.calls, "update") = {}

\* C8, reached: two detections, the second with the better quality fields,
\* and update called with the first
C8_Witness ==
    /\ op.name = "process_frame"
    /\ Len(op.args.detections) = 2
    /\ op.args.detections[2].hamming < op.args.detections[1].hamming
    /\ op.args.detections[2].decision_margin > op.args.detections[1].decision_margin
    /\ \E k \in CallsOf(op.calls, "update") :
           op.calls[k].arg[1] = op.args.detections[1].translation

\* C9 as stated: process_frame runs preintegrate and predict if and only if
\* a previous frame was processed and both gyro and accel samples are given.
C9_PredictIffGyroAndAccel ==
    [][ IsCall("process_frame") =>
          ( ( /\ CallsOf(op'.calls, "preintegrate") # {}
              /\ CallsOf(op'.calls, "predict") # {} )
            <=> ( /\ vio.last_frame_time # None
                  /\ Len(op'.args.gyro_measurements) > 0
                  /\ Len(op'.args.accel_measurements) > 0 ) ) ]_vars

\* C9: process_frame runs preintegrate and then predict if and only if
\* last_frame_time is set (a process_frame has returned since construction
\* or the last reset) and the gyro list is not empty; the accel list is not
\* looked at; otherwise neither is called.
C9_PredictIffGyro ==
    [][ IsCall("process_frame") =>
          IF vio.last_frame_time # None /\ Len(op'.args.gyro_measurements) > 0
          THEN /\ Len(op'.calls) >= 2
               /\ op'.calls[1].fn = "preintegrate"
               /\ op'.calls[2].fn = "predict"
          ELSE /\ CallsOf(op'.calls, "preintegrate") = {}
               /\ CallsOf(op'.calls, "predict") = {} ]_vars

\* C9, reached: gyro samples without accel samples, and predict has run
C9_Witness ==
    /\ op.name = "process_frame"
    /\ Len(op.args.gyro_measurements) > 0
    /\ Len(op.args.accel_measurements) = 0
    /\ CallsOf(op.calls, "preintegrate") # {}
    /\ CallsOf(op.calls, "predict") # {}

\* C10: in one process_frame the calls come in the order preintegrate,
\* predict, update, each at most once, and preintegrate is given the
\* orientation the filter had before this cycle's predict.
C10_CycleOrder ==
    [][ IsCall("process_frame") =>
          /\ \A j, k \in 1..Len(op'.calls) :
                 j < k => Rank(op'.calls[j].fn) < Rank(op'.calls[k].fn)
          /\ \A k \in CallsOf(op'.calls, "preintegrate") :
                 op'.calls[k].arg = get_state(ekf).orientation ]_vars

\* C10, reached: a cycle with all three calls, in which predict turned the
\* filter away from the orientation the integrator was given
C10_Witness ==
    /\ op.name = "process_frame"
    /\ op.raised = "none"
    /\ CallsOf(op.calls, "preintegrate") # {}
    /\ CallsOf(op.calls, "predict") # {}
    /\ CallsOf(op.calls, "update") # {}
    /\ \A k \in CallsOf(op.calls, "predict") : op.calls[k].arg[3] # Identity

-----------------------------------------------------------------------------

\* The sum of the magnitudes of row i of A off the diagonal
RECURSIVE OffDiagonalTo(_, _, _)
OffDiagonalTo(A, i, k) ==
    IF k = 0 THEN 0
    ELSE (IF k = i THEN 0 ELSE Abs(A[i][k])) + OffDiagonalTo(A, i, k - 1)

Symmetric(A) ==
    /\ Rows(A) = Cols(A)
    /\ \A i, j \in 1..Rows(A) : A[i][j] = A[j][i]

\* Symmetric with every diagonal entry at least the sum of the magnitudes of
\* the rest of its row: such a matrix is positive semi-definite
DominantPSD(A) ==
    /\ Symmetric(A)
    /\ \A i \in 1..Rows(A) : A[i][i] >= OffDiagonalTo(A, i, Cols(A))

\* The same with strict inequalities: such a matrix is positive definite
DominantPD(A) ==
    /\ Symmetric(A)
    /\ \A i \in 1..Rows(A) : A[i][i] > OffDiagonalTo(A, i, Cols(A))

PositionTrace(e) == Trace(Block(e.covariance, 0, 3, 0, 3))

\* C11: for a symmetric positive semi-definite prior covariance and a
\* positive definite R, the trace of the 3x3 position block of the covariance
\* after update is at most its value before the update.
C11_PositionTraceShrinks ==
    [][ ( /\ IsCall("update")
          /\ op'.raised = "none"
          /\ WellShaped(ekf)
          /\ DominantPSD(ekf.covariance)
          /\ DominantPD(ekf.R) )
        => PositionTrace(ekf') <= PositionTrace(ekf) ]_vars

\* C11, reached: an update after a predict, on a covariance in which
\* position and velocity are coupled, has made the position trace smaller
C11_Witness ==
    /\ op.name = "update"
    /\ op.raised = "none"
    /\ op.n = 2
    /\ WellShaped(ekf)
    /\ ekf.covariance[1][4] # 0
    /\ DominantPD(ekf.R)
    /\ PositionTrace(ekf) < 3 * InitialCovarianceScale

\* C12: on a default-constructed filter, update([1, 0, 0], identity) leaves
\* the x of the position strictly between 0 and 1 and leaves y and z at 0.
C12_MovesTowardMeasurement ==
    [][ ( /\ IsCall("update")
          /\ ekf = EKFFusionEngine(None, None, None, None)
          /\ op'.args.measured_position = <<One, 0, 0>>
          /\ op'.args.measured_rotation = Identity )
        => /\ op'.raised = "none"
           /\ 0 < ekf'.state[1] /\ ekf'.state[1] < One
           /\ ekf'.state[2] = 0 /\ ekf'.state[3] = 0 ]_vars

\* C12, reached: the first call on the default filter was that update, and
\* the position has moved more than half the way
C12_Witness ==
    /\ op.name = "update"
    /\ op.n = 1
    /\ op.args.measured_position = <<One, 0, 0>>
    /\ op.args.measured_rotation = Identity
    /\ ekf.R = DefaultR
    /\ ekf.covariance[4][4] = InitialCovarianceScale
    /\ ekf.state[1] > One \div 2
    /\ ekf.state[1] < One

\* C13: predict(dp, dv, drot, dt) sets the position to p + v*dt + dp with the
\* velocity v from before the call and the velocity to v + dv; with
\* dp = dv = 0, the identity rotation and dt = 1 on the default zero state
\* the position and the velocity stay at [0, 0, 0].
C13_PredictPropagates ==
    [][ IsCall("predict") =>
          /\ \A k \in 1..3 :
                 /\ ekf'.state[k] = ekf.state[k] + Mul(ekf.state[k + 3], op'.args.dt)
                                     + op'.args.delta_position[k]
                 /\ ekf'.state[k + 3] = ekf.state[k + 3] + op'.args.delta_velocity[k]
          /\ ( /\ ekf.state = DefaultState
               /\ op'.args = [delta_position |-> Zeros(3), delta_velocity |-> Zeros(3),
                               delta_rotation |-> Identity, dt |-> One] )
             => Slice(ekf'.state, 0, 6) = Zeros(6) ]_vars

\* C13, reached: a second predict with dp = 0 has moved the position by the
\* velocity the first one had left
C13_Witness ==
    /\ op.name = "predict"
    /\ op.n = 2
    /\ op.args.delta_position = Zeros(3)
    /\ op.args.delta_velocity = Zeros(3)
    /\ ekf.state[5] # 0
    /\ ekf.state[2] = Mul(ekf.state[5], op.args.dt)

\* C14: predict leaves the gyro_bias and accel_bias blocks state[10:16]
\* exactly as they were, for every argument and every prior state.
C14_PredictKeepsBiases ==
    [][ IsCall("predict") =>
          Slice(ekf'.state, 10, 16) = Slice(ekf.state, 10, 16) ]_vars

\* C14, reached: a predict with a time step and a rotation on a state whose
\* two biases are not zero
C14_Witness ==
    /\ op.name = "predict"
    /\ op.args.delta_rotation # Identity
    /\ op.args.dt > 0
    /\ Slice(ekf.state, 10, 13) # Zeros(3)
    /\ Slice(ekf.state, 13, 16) # Zeros(3)

-----------------------------------------------------------------------------

\* The call was a preintegrate without motion: identity initial rotation,
\* every gyro sample the gyro bias, every accel sample less the accel bias
\* the gravity vector
ZeroMotion ==
    /\ op.name = "preintegrate"
    /\ op.args.initial_rotation = None
    /\ \A k \in 1..Len(op.args.gyro_measurements) :
           op.args.gyro_measurements[k][2] = imu.gyro_bias
    /\ \A k \in 1..Len(op.args.accel_measurements) :
           VecSub(op.args.accel_measurements[k][2], imu.accel_bias) = imu.gravity

\* C15: for streams of any length and timestamps in which every gyro sample
\* equals the gyro bias and every accel sample minus the accel bias equals
\* the gravity vector, preintegrate with the identity initial rotation
\* returns delta_position = 0, delta_velocity = 0, delta_rotation = identity.
C15_ZeroMotion ==
    ZeroMotion =>
        /\ op.raised = "none"
        /\ op.result[1].result = <<Zeros(3), Zeros(3), Identity>>

\* C15, reached: two or more integrated steps over such streams, with
\* biases that are not zero
C15_Witness ==
    /\ ZeroMotion
    /\ imu.gyro_bias # Zeros(3)
    /\ imu.accel_bias # Zeros(3)
    /\ op.result[1].steps >= 2
    /\ imu.dt_total > 0
    /\ op.result[1].result = <<Zeros(3), Zeros(3), Identity>>

-----------------------------------------------------------------------------

\* C16: after reset(position, orientation), whatever came before, the state
\* is the given position (zero if omitted), zero velocity, the given rotation
\* as a w-first quaternion ([1, 0, 0, 0] if omitted) and zero biases; the
\* covariance is 0.1 times the 16x16 identity; Q and R are unchanged.
C16_ResetIsCanonical ==
    [][ IsCall("reset") =>
          /\ op'.raised = "none"
          /\ ekf'.state =
                 (IF op'.args.position # None THEN op'.args.position ELSE <<0, 0, 0>>)
                 \o <<0, 0, 0>>
                 \o (IF op'.args.orientation # None
                     THEN << op'.args.orientation[4], op'.args.orientation[1],
                             op'.args.orientation[2], op'.args.orientation[3] >>
                     ELSE <<One, 0, 0, 0>>)
                 \o <<0, 0, 0, 0, 0, 0>>
          /\ Shape(ekf'.covariance) = <<StateDim, StateDim>>
          /\ \A i, j \in 1..StateDim :
                 ekf'.covariance[i][j] = IF i = j THEN InitialCovarianceScale ELSE 0
          /\ ekf'.Q = ekf.Q
          /\ ekf'.R = ekf.R ]_vars

\* C16, reached: a reset with a position and an orientation, as the second
\* call on a filter built with a measurement noise of its own
C16_Witness ==
    /\ op.name = "reset"
    /\ op.n = 2
    /\ op.args.position = <<One, 0, 0>>
    /\ op.args.orientation = RotX106
    /\ ekf.R = ExactXNoise
    /\ Slice(ekf.state, 6, 10) = <<RotX106[4], RotX106[1], 0, 0>>

-----------------------------------------------------------------------------

\* C17: VIOSystem.reset puts the filter in its canonical initial state,
\* zeroes the accumulators of the integrator and clears last_frame_time and
\* frame_count; the process_frame that follows a reset makes no predict,
\* even when it is given IMU samples.
C17_SystemReset ==
    [][ /\ IsCall("reset") =>
            /\ ekf'.state = DefaultState
            /\ ekf'.covariance = DefaultCovariance
            /\ imu'.delta_position = Zeros(3)
            /\ imu'.delta_velocity = Zeros(3)
            /\ imu'.delta_rotation = Identity
            /\ imu'.dt_total = 0
            /\ vio' = [last_frame_time |-> None, frame_count |-> 0]
        /\ (IsCall("process_frame") /\ op.name = "reset") =>
            /\ CallsOf(op'.calls, "preintegrate") = {}
            /\ CallsOf(op'.calls, "predict") = {}
            /\ vio'.frame_count = 1 ]_vars

\* C17, reached: a frame with gyro and accel samples is the third call, it
\* is the first frame counted, and it has made no predict
C17_Witness ==
    /\ op.name = "process_frame"
    /\ op.n = 3
    /\ vio.frame_count = 1
    /\ Len(op.args.gyro_measurements) > 0
    /\ Len(op.args.accel_measurements) > 0
    /\ CallsOf(op.calls, "predict") = {}

-----------------------------------------------------------------------------

\* The call that returned r and left the integrator as self did what the
\* call anew did on a newly built integrator, on arrays of its own
SameAsAnew(r, self, anew) ==
    /\ r.result = anew.result
    /\ get_integration_info(self) = get_integration_info(anew.imu)
    /\ ~r.aliased

\* C18: what preintegrate returns, and the dt_total that
\* get_integration_info reports, depend only on the arguments of the call and
\* on the bias and gravity of the integrator, never on earlier calls: they
\* are what a newly built integrator with that bias and gravity returns; and
\* the arrays the call writes and returns are not arrays an earlier call
\* returned.
C18_NoCrossCallAccumulation ==
    [][ IsCall("preintegrate") =>
          SameAsAnew(op'.result[1], imu',
              preintegrate(IMUProcessor(imu.gyro_bias, imu.accel_bias, imu.gravity),
                           op'.args.gyro_measurements, op'.args.accel_measurements,
                           op'.args.initial_rotation)) ]_vars

\* C18, reached: a preintegrate that integrated follows a preintegrate that
\* had left a velocity in the accumulators, and returns less than it
C18_Witness ==
    /\ op.name = "preintegrate"
    /\ op.n = 2
    /\ imu.gyro_bias = Zeros(3)
    /\ op.result[1].steps = 1
    /\ op.result[1].result[2][3] > 0
    /\ ~op.result[1].aliased

-----------------------------------------------------------------------------

-----------------------------------------------------------------------------

\* C20: the gyro_bias and accel_bias of the integrator change only through
\* update_bias, which replaces both (get_bias then returns the values set);
\* process_frame, with its preintegrate, predict and update, and reset leave
\* them as they were, and the bias state of the filter is never copied into
\* the integrator.
C20_BiasOnlyByUpdateBias ==
    [][ IF IsCall("update_bias")
        THEN get_bias(imu') = <<op'.args.gyro_bias, op'.args.accel_bias>>
        ELSE get_bias(imu') = get_bias(imu) ]_vars

\* C20, reached: a frame has run predict and update on a system whose
\* integrator holds biases that are not those of the filter state
C20_Witness ==
    /\ op.name = "process_frame"
    /\ op.raised = "none"
    /\ CallsOf(op.calls, "predict") # {}
    /\ CallsOf(op.calls, "update") # {}
    /\ get_bias(imu)[1] # Zeros(3)
    /\ get_bias(imu)[2] # Zeros(3)
    /\ get_bias(imu) # <<get_state(ekf).gyro_bias, get_state(ekf).accel_bias>>

-----------------------------------------------------------------------------

\* The arrays the caller holds in c are, value for value, those it holds in d
SameArrays(c, d) ==
    /\ (c.state = None) = (d.state = None)
    /\ (c.covariance = None) = (d.covariance = None)
    /\ c.state # None => \A k \in StateArrays : c.state[1][k] = d.state[1][k]
    /\ c.covariance # None => c.covariance[1].covariance = d.covariance[1].covariance

\* C21: get_state and get_covariance do not change the filter and return
\* the blocks of its state and its covariance; writing in place into an array
\* they returned does not change the filter; and a later predict or update
\* does not change an array they returned earlier.
C21_ReadsAreCopies ==
    [][ /\ IsCall("get_state") =>
            /\ ekf' = ekf
            /\ \A k \in StateArrays :
                   op'.result[1][k] = Slice(ekf.state, SliceOf(k)[1], SliceOf(k)[2])
        /\ IsCall("get_covariance") =>
            /\ ekf' = ekf
            /\ op'.result[1].covariance = ekf.covariance
        /\ IsCall("mutate_returned") =>
            /\ ekf' = ekf
            /\ ~SameArrays(caller', caller)
        /\ (IsCall("predict") \/ IsCall("update")) => SameArrays(caller', caller) ]_vars

\* C21, reached: the caller still holds the position and the quaternion it
\* was given before a predict that moved and turned the filter
C21_Witness ==
    /\ op.name = "predict"
    /\ op.raised = "none"
    /\ caller.state # None
    /\ caller.state[1].position # Slice(ekf.state, 0, 3)
    /\ caller.state[1].quaternion # Slice(ekf.state, 6, 10)
    /\ caller.state[1].quaternion = <<One, 0, 0, 0>>

C22_WitnessAfterUpdate ==
    /\ op.name = "is_initialized"
    /\ op.calls[1].fn = "update"
    /\ op.calls[1].raised = "none"
    /\ Slice(ekf.state, 0, 3) = Zeros(3)
    /\ op.result = Some(FALSE)

-----------------------------------------------------------------------------

\* The locals of the loop, pass by pass, in the preintegrate call that op
\* records
FramesOfCall ==
    LoopFrames(imu,
        LoopStart(reset_integration(imu), op.args.gyro_measurements,
                  op.args.accel_measurements,
                  IF op.args.initial_rotation = None THEN Identity
                  ELSE op.args.initial_rotation))

\* Every pair f, g of locals before and after one pass satisfies P
EveryPass(frames, P(_, _)) ==
    \A k \in 1..(Len(frames) - 1) : P(frames[k], frames[k + 1])

\* The acceleration in the world frame that the pass from f to g integrated
PassAccel(f, g) == AccelWorld(imu, f, g.current_rotation)

\* 1.5 * a * dt^2
ThreeHalves(a, dt) == Mul(Mul(a + a \div 2, dt), dt)

\* The pass from f to g, if it integrated, added accel_world * dt to the
\* velocity and then moved the position with the velocity so increased
VelocityFirst(f, g) ==
    StepDt(f) > 0 =>
        \A i \in 1..3 :
            /\ g.delta_velocity[i] =
                   f.delta_velocity[i] + Mul(PassAccel(f, g)[i], StepDt(f))
            /\ g.delta_position[i] =
                   f.delta_position[i] + Mul(g.delta_velocity[i], StepDt(f))
                   + Mul(Mul(Mul(PassAccel(f, g)[i], Half), StepDt(f)), StepDt(f))
            /\ (f.delta_velocity = Zeros(3) /\ f.delta_position = Zeros(3)) =>
                   Abs(g.delta_position[i] - ThreeHalves(PassAccel(f, g)[i], StepDt(f)))
                   <= 1

AdvancedOne(f, g) ==
    IF f.gyro[f.gyro_idx + 2][1] <= f.accel[f.accel_idx + 2][1]
    THEN g.gyro_idx = f.gyro_idx + 1 /\ g.accel_idx = f.accel_idx
    ELSE g.accel_idx = f.accel_idx + 1 /\ g.gyro_idx = f.gyro_idx

\* A pass with dt <= 0 changed nothing but one index; a pass with dt > 0
\* integrated dt and then moved one index
SkipOrIntegrate(f, g) ==
    /\ AdvancedOne(f, g)
    /\ IF StepDt(f) <= 0
       THEN /\ g.delta_position = f.delta_position
            /\ g.delta_velocity = f.delta_velocity
            /\ g.current_rotation = f.current_rotation
            /\ g.dt_total = f.dt_total
            /\ g.steps = f.steps
       ELSE /\ g.dt_total = f.dt_total + StepDt(f)
            /\ g.steps = f.steps + 1
            /\ g.delta_velocity =
                   VecAdd(f.delta_velocity, VecScale(PassAccel(f, g), StepDt(f)))

\* C24: a pass of the loop whose dt is <= 0 changes none of delta_position,
\* delta_velocity, the running rotation and dt_total and moves exactly one
\* stream index on (the gyro index if its next timestamp is <= that of the
\* accel stream, the accel index otherwise); every pass whose dt is > 0
\* integrates and then moves one index on by the same rule.
C24_SkippedPassOnlyAdvances ==
    op.name = "preintegrate" =>
        /\ EveryPass(FramesOfCall, SkipOrIntegrate)
        /\ Len(FramesOfCall) = op.result[1].iterations + 1
        /\ FramesOfCall[Len(FramesOfCall)].steps = op.result[1].steps

\* C24, reached: a call in which a pass was skipped on the accel stream and
\* later passes integrated
C24_Witness ==
    /\ op.name = "preintegrate"
    /\ op.result[1].iterations = 3
    /\ op.result[1].steps = 2
    /\ op.args.accel_measurements[1][1] = op.args.accel_measurements[2][1]
    /\ op.result[1].loop.accel_idx = 2

-----------------------------------------------------------------------------

\* Two rotations agree, component by component, within the tolerance
CloseRotations(p, q) == \A i \in 1..4 : Abs(p[i] - q[i]) <= NormTol

\* The initial rotation the call took: the identity when none is given
InitialOfCall ==
    IF op.args.initial_rotation = None THEN Identity ELSE op.args.initial_rotation

\* C25: the delta_rotation preintegrate returns is the rotation relative to
\* the start, inverse(initial_rotation) composed with the final running
\* rotation, not the running rotation itself: when every gyro sample less
\* the gyro bias is zero it is the identity for every initial_rotation, and
\* initial_rotation composed with it is the final running rotation.
C25_RelativeRotation ==
    op.name = "preintegrate" =>
        /\ (\A k \in 1..Len(op.args.gyro_measurements) :
                op.args.gyro_measurements[k][2] = imu.gyro_bias)
           => op.result[1].result[3] = Identity
        /\ CloseRotations(RotMul(InitialOfCall, op.result[1].result[3]),
                          op.result[1].loop.current_rotation)
        /\ imu.delta_rotation = op.result[1].result[3]

\* C25, reached: from an initial rotation about x the gyro has turned the
\* body about z, and the rotation returned is neither the identity nor the
\* running rotation
C25_Witness ==
    /\ op.name = "preintegrate"
    /\ op.args.initial_rotation = RotX106
    /\ op.result[1].steps >= 2
    /\ op.result[1].result[3] # Identity
    /\ op.result[1].result[3][3] # 0
    /\ ~CloseRotations(op.result[1].result[3], op.result[1].loop.current_rotation)

\* The timestamps of the samples of a call
TimesOfCall ==
    { op.args.gyro_measurements[k][1] : k \in 1..Len(op.args.gyro_measurements) }
    \cup { op.args.accel_measurements[k][1] : k \in 1..Len(op.args.accel_measurements) }

\* C26: the integration steps of one preintegrate call cover intervals that
\* do not overlap: dt_total, the sum of the step durations, is never more
\* than the span from the earliest to the latest input timestamp, also for
\* gyro and accel streams that share their timestamps.
C26_WithinSpan ==
    (op.name = "preintegrate" /\ TimesOfCall # {}) =>
        \E lo, hi \in TimesOfCall :
            /\ \A t \in TimesOfCall : lo <= t /\ t <= hi
            /\ imu.dt_total <= hi - lo

-----------------------------------------------------------------------------

\* The pass from f to g moved exactly one index on by one, and the samples
\* it read at idx and idx + 1 exist in both streams
OneIndexInBounds(f, g) ==
    /\ f.gyro_idx + 1 <= Len(f.gyro) - 1
    /\ f.accel_idx + 1 <= Len(f.accel) - 1
    /\ \/ g.gyro_idx = f.gyro_idx + 1 /\ g.accel_idx = f.accel_idx
       \/ g.gyro_idx = f.gyro_idx /\ g.accel_idx = f.accel_idx + 1
    /\ g.gyro_idx <= Len(g.gyro) - 1
    /\ g.accel_idx <= Len(g.accel) - 1

\* C27 as stated: every pass moves exactly one index on by one, the indices
\* always satisfy gyro_idx <= len(gyro) - 1 and accel_idx <= len(accel) - 1,
\* and the number of passes is at most (len(gyro) - 1) + (len(accel) - 1) - 1.
C27_IterationBound ==
    op.name = "preintegrate" =>
        /\ EveryPass(FramesOfCall, OneIndexInBounds)
        /\ op.result[1].loop.gyro_idx <= Len(op.args.gyro_measurements) - 1
        /\ op.result[1].loop.accel_idx <= Len(op.args.accel_measurements) - 1
        /\ op.result[1].iterations
             <= (Len(op.args.gyro_measurements) - 1)
                + (Len(op.args.accel_measurements) - 1) - 1

\* C27: the loop ends for every input.  Every pass, integrated or skipped,
\* moves exactly one of gyro_idx, accel_idx on by one; in every pass the
\* samples at idx and idx + 1 exist, and after it gyro_idx <= len(gyro) - 1
\* and accel_idx <= len(accel) - 1; when both streams have two samples or
\* more the number of passes is at least 1 and at most
\* (len(gyro) - 1) + (len(accel) - 1) - 1; when either has fewer than two
\* there is no pass and both indices stay 0.
C27_LoopTerminates ==
    op.name = "preintegrate" =>
        /\ EveryPass(FramesOfCall, OneIndexInBounds)
        /\ Len(FramesOfCall) = op.result[1].iterations + 1
        /\ op.result[1].iterations
             = op.result[1].loop.gyro_idx + op.result[1].loop.accel_idx
        /\ IF Len(op.args.gyro_measurements) >= 2
              /\ Len(op.args.accel_measurements) >= 2
           THEN /\ op.result[1].iterations >= 1
                /\ op.result[1].iterations
                     <= (Len(op.args.gyro_measurements) - 1)
                        + (Len(op.args.accel_measurements) - 1) - 1
                /\ op.result[1].loop.gyro_idx <= Len(op.args.gyro_measurements) - 1
                /\ op.result[1].loop.accel_idx <= Len(op.args.accel_measurements) - 1
           ELSE /\ op.result[1].iterations = 0
                /\ op.result[1].loop.gyro_idx = 0
                /\ op.result[1].loop.accel_idx = 0

\* C27, reached: the longest loop of two streams of three samples, one pass
\* of it skipped
C27_Witness ==
    /\ op.name = "preintegrate"
    /\ Len(op.args.gyro_measurements) = 3
    /\ Len(op.args.accel_measurements) = 3
    /\ op.result[1].iterations = 3
    /\ op.result[1].steps < op.result[1].iterations

-----------------------------------------------------------------------------

\* The stream s, in timestamp order, with another reading in every sample
\* after the one the loop ended on, and in its last sample
WithOtherReadings(s, idx) ==
    [p \in 1..Len(s) |->
        IF p > idx + 1 \/ p = Len(s)
        THEN <<s[p][1], VecAdd(s[p][2], <<One, One, One>>)>>
        ELSE s[p]]

\* The call that returned r returns the same when it is made anew, as the
\* call other was
SameResult(r, other) ==
    /\ r.result = other.result
    /\ r.steps = other.steps
    /\ r.imu.dt_total = other.imu.dt_total

\* C28: preintegrate stops as soon as either stream is at its last sample:
\* the reading of the last gyro sample and of the last accel sample in
\* timestamp order is never used, and the samples one stream has left when
\* the other is exhausted add nothing; changing those readings alone leaves
\* the result as it was.
C28_LastReadingsUnused ==
    op.name = "preintegrate" =>
        SameResult(op.result[1],
            preintegrate(IMUProcessor(imu.gyro_bias, imu.accel_bias, imu.gravity),
                WithOtherReadings(op.result[1].loop.gyro, op.result[1].loop.gyro_idx),
                WithOtherReadings(op.result[1].loop.accel, op.result[1].loop.accel_idx),
                op.args.initial_rotation))

\* C28, reached: the gyro stream was given out of order, the loop ended on
\* its last sample in time with an accel sample left over, and the result is
\* a motion
C28_Witness ==
    /\ op.name = "preintegrate"
    /\ Len(op.args.gyro_measurements) = 3
    /\ op.args.gyro_measurements[1][1] > op.args.gyro_measurements[2][1]
    /\ op.result[1].loop.gyro_idx = Len(op.args.gyro_measurements) - 1
    /\ op.result[1].loop.accel_idx < Len(op.args.accel_measurements) - 1
    /\ op.result[1].steps >= 2
    /\ op.result[1].result[3] # Identity

-----------------------------------------------------------------------------

\* The filter does not estimate its biases: both bias blocks of the state
\* are zero, and so is every covariance between a bias and a position,
\* velocity or orientation state
BiasDecoupled(e) ==
    /\ Slice(e.state, 10, 16) = Zeros(6)
    /\ \A i \in 11..StateDim : \A j \in 1..10 :
           e.covariance[i][j] = 0 /\ e.covariance[j][i] = 0

\* C29: a filter constructed with the defaults has zero gyro_bias and
\* accel_bias blocks and zero covariance between the bias states and the
\* position, velocity and orientation states, and with the default Q and R
\* no predict and no update changes that: the filter never changes its bias
\* estimate.
C29_BiasNeverEstimated ==
    [][ /\ (op.name = "__init__" /\ op.args = Ctor(None, None, None, None))
           => (ekf.Q = DefaultQ /\ ekf.R = DefaultR /\ BiasDecoupled(ekf))
        /\ ( /\ IsCall("predict") \/ IsCall("update")
             /\ WellShaped(ekf)
             /\ ekf.Q = DefaultQ /\ ekf.R = DefaultR
             /\ BiasDecoupled(ekf) )
           => BiasDecoupled(ekf') ]_vars

\* C29, reached: an update that moved the default filter, after a predict
\* that had coupled position and velocity and grown the bias variances
C29_Witness ==
    /\ op.name = "update"
    /\ op.raised = "none"
    /\ op.n = 2
    /\ WellShaped(ekf)
    /\ ekf.Q = DefaultQ /\ ekf.R = DefaultR
    /\ BiasDecoupled(ekf)
    /\ ekf.covariance[1][4] # 0
    /\ ekf.covariance[StateDim][StateDim] > InitialCovarianceScale
    /\ Slice(ekf.state, 0, 3) # Zeros(3)

-----------------------------------------------------------------------------

\* C30: frame_count is the number of process_frame calls since construction
\* or the last reset, those that raised included; last_frame_time is the
\* timestamp of the last process_frame that returned since then, None if
\* there is none; and whenever predict runs, the dt it is given is the
\* timestamp of the frame minus that last_frame_time, which is positive when
\* the timestamp is the later one.
C30_FrameBookkeeping ==
    [][ /\ op.n = 0 => vio = [last_frame_time |-> None, frame_count |-> 0]
        /\ IsCall("process_frame") =>
            /\ vio'.frame_count = vio.frame_count + 1
            /\ vio'.last_frame_time =
                   IF op'.raised = "none" THEN Some(op'.args.timestamp)
                   ELSE vio.last_frame_time
            /\ \A k \in CallsOf(op'.calls, "predict") :
                   /\ vio.last_frame_time # None
                   /\ op'.calls[k].arg[4] = op'.args.timestamp - vio.last_frame_time[1]
                   /\ op'.args.timestamp > vio.last_frame_time[1]
                      => op'.calls[k].arg[4] > 0
        /\ IsCall("reset") =>
            vio' = [last_frame_time |-> None, frame_count |-> 0]
        /\ ~(IsCall("process_frame") \/ IsCall("reset")) => vio' = vio ]_vars

\* C30, reached: the third frame raised in update after its predict: it is
\* counted, and last_frame_time is still the time of the second frame
C30_Witness ==
    /\ op.name = "process_frame"
    /\ op.raised # "none"
    /\ vio.frame_count = 3
    /\ CallsOf(op.calls, "predict") # {}
    /\ vio.last_frame_time # None
    /\ vio.last_frame_time # Some(op.args.timestamp)

=============================================================================
